---- MODULE Spec2Model ----
(***************************************************************************)
(* A model of BaseRepository (utils/repositories.py) and build_filters     *)
(* (utils/tools.py): a generic repository over one mapped class, backed by *)
(* a relational store.                                                     *)
(*                                                                         *)
(* The store is a set of rows of the mapped class.  A row is a function    *)
(* from column names to values; a column that holds NULL is absent from    *)
(* the row's domain.  The primary key "id" is always present and unique.   *)
(* Column "a" holds strings (sequences of one-character strings), column   *)
(* "b" holds integers.  The mapped class has one relationship, "rel", to a *)
(* related class with the integer columns "f" and "g"; `links` holds the   *)
(* pairs <<root id, related id>> the relationship joins.                   *)
(*                                                                         *)
(* Every handler is one operator on the store (it returns the new store,   *)
(* the error raised or "None", and the value returned) and one action that *)
(* applies it to arguments drawn from small sets and records the call in   *)
(* `last`.  `prev` is the table as it was before the last call.            *)
(***************************************************************************)
EXTENDS Integers, Sequences, FiniteSets, TLC

VARIABLES
    table,      \* rows of the mapped class
    seq,        \* next value of the primary-key sequence
    related,    \* rows of the related class
    links,      \* the relationship: pairs <<root id, related id>>
    repo,       \* "none" or "ready": whether a repository has been constructed
    last,       \* the last call: op, args, err, rows, num, flag, sel (rows selected)
    prev,       \* the table before the last call
    walk        \* a caller paging through all_paginated, page after page

vars == <<table, seq, related, links, repo, last, prev, walk>>

(***************************************************************************)
(* Bounds of the model.                                                    *)
(***************************************************************************)
MaxId == 2          \* primary keys are 1..MaxId
MaxPage == 3        \* pages requested are 1..MaxPage
MaxPageSize == 2    \* page sizes requested are 1..MaxPageSize

Ids == 1..MaxId
Cols == {"id", "a", "b"}
RowA == {<<"x">>, <<"X">>}
RowB == {1}
Empty == <<>>

(***************************************************************************)
(* Python's str.strip() and str.lower() on strings over the characters     *)
(* "x", "X" and " ".                                                       *)
(***************************************************************************)
LowerChar(c) == IF c = "X" THEN "x" ELSE c

Lower(s) == [i \in 1..Len(s) |-> LowerChar(s[i])]

RECURSIVE LStrip(_)
LStrip(s) == IF s # <<>> /\ Head(s) = " " THEN LStrip(Tail(s)) ELSE s

RECURSIVE RStrip(_)
RStrip(s) ==
    IF s # <<>> /\ s[Len(s)] = " " THEN RStrip(SubSeq(s, 1, Len(s) - 1)) ELSE s

Strip(s) == RStrip(LStrip(s))

\* isinstance(value, str): the values given for column "a" are the strings
IsStr(k) == k = "a"

(***************************************************************************)
(* column == value, as the store evaluates it: NULL never compares equal.  *)
(***************************************************************************)
ColEq(row, k, v) == k \in DOMAIN row /\ row[k] = v

\* payload's columns laid over row: UPDATE ... SET, or the constructor call
Assign(row, payload) ==
    [k \in DOMAIN row \cup DOMAIN payload |->
        IF k \in DOMAIN payload THEN payload[k] ELSE row[k]]

IdsOf(tbl) == {r.id : r \in tbl}

\* every ordering of a finite set: the row order of a SELECT without ORDER BY
RECURSIVE Orders(_)
Orders(S) ==
    IF S = {} THEN {<<>>}
    ELSE UNION {{<<x>> \o o : o \in Orders(S \ {x})} : x \in S}

Result(tbl, s, err, rows, num, flag) ==
    [table |-> tbl, seq |-> s, err |-> err, rows |-> rows, num |-> num, flag |-> flag]

(***************************************************************************)
(* BaseRepository.__init__.  binding is what the class holds under         *)
(* schema_class: "unassigned" (the class body only annotates it, so the    *)
(* attribute does not exist), "empty" (assigned a falsy value) or "bound". *)
(* The session is stored before the check.                                 *)
(***************************************************************************)
__init__(binding) ==
    IF binding = "unassigned" THEN "AttributeError"
    ELSE IF binding = "empty" THEN "Unprocessable"
    ELSE "None"

(* getattr(self.schema_class, name) *)
HasAttr(name) == name \in Cols \cup {"rel"}

(* the selectinload options of _get, find_by and _all_paginated: they load
   related rows and leave the selected rows alone, but resolving an
   unknown relationship name raises *)
LoadErr(relationships) ==
    IF \E i \in DOMAIN relationships : ~HasAttr(relationships[i])
    THEN "AttributeError" ELSE "None"

(***************************************************************************)
(* BaseRepository._get                                                     *)
(***************************************************************************)
_get(tbl, s, id_, relationships) ==
    LET found == {r \in tbl : ColEq(r, "id", id_)} IN
    IF LoadErr(relationships) # "None"
    THEN Result(tbl, s, LoadErr(relationships), Empty, 0, FALSE)
    ELSE IF found = {}
    THEN Result(tbl, s, "NotFound", Empty, 0, FALSE)
    ELSE Result(tbl, s, "None", <<CHOOSE r \in found : TRUE>>, 0, FALSE)

(***************************************************************************)
(* BaseRepository.count                                                    *)
(***************************************************************************)
count(tbl, s) == Result(tbl, s, "None", Empty, Cardinality(tbl), FALSE)

(***************************************************************************)
(* BaseRepository.find_by: AND of the conditions, scalar_one_or_none       *)
(***************************************************************************)
find_by(tbl, s, filters, relationships) ==
    LET found == {r \in tbl : \A k \in DOMAIN filters : ColEq(r, k, filters[k])} IN
    IF LoadErr(relationships) # "None"
    THEN Result(tbl, s, LoadErr(relationships), Empty, 0, FALSE)
    ELSE IF \E k \in DOMAIN filters : ~HasAttr(k)
    THEN Result(tbl, s, "AttributeError", Empty, 0, FALSE)
    ELSE IF found = {}
    THEN Result(tbl, s, "None", Empty, 0, FALSE)
    ELSE IF Cardinality(found) > 1
    THEN Result(tbl, s, "MultipleResultsFound", Empty, 0, FALSE)
    ELSE Result(tbl, s, "None", <<CHOOSE r \in found : TRUE>>, 0, FALSE)

(***************************************************************************)
(* BaseRepository._first and _last, ordered by the primary key             *)
(***************************************************************************)
_first(tbl, s) ==
    IF tbl = {} THEN Result(tbl, s, "NotFound", Empty, 0, FALSE)
    ELSE Result(tbl, s, "None",
                <<CHOOSE r \in tbl : \A q \in tbl : r.id <= q.id>>, 0, FALSE)

_last(tbl, s) ==
    IF tbl = {} THEN Result(tbl, s, "NotFound", Empty, 0, FALSE)
    ELSE Result(tbl, s, "None",
                <<CHOOSE r \in tbl : \A q \in tbl : r.id >= q.id>>, 0, FALSE)

(***************************************************************************)
(* BaseRepository._save.  A payload without "id" takes the next value of   *)
(* the sequence (consumed whether or not the insert succeeds); inserting   *)
(* an id that is already there is the store's integrity error, which the   *)
(* handler catches and raises again as DatabaseError.  The instance        *)
(* returned is refreshed: it carries the generated id.                     *)
(***************************************************************************)
\* _save without the except clause: the store's error reaches the caller
_save_nocatch(tbl, s, payload) ==
    LET given == "id" \in DOMAIN payload
        id    == IF given THEN payload["id"] ELSE s
        s2    == IF given THEN s ELSE s + 1
        row   == Assign([id |-> id], payload)
    IN  IF id \in IdsOf(tbl)
        THEN Result(tbl, s2, "IntegrityError", Empty, 0, FALSE)
        ELSE Result(tbl \cup {row}, s2, "None", <<row>>, 0, FALSE)

_save(tbl, s, payload) ==
    LET given == "id" \in DOMAIN payload
        id    == IF given THEN payload["id"] ELSE s
        s2    == IF given THEN s ELSE s + 1
        row   == Assign([id |-> id], payload)
    IN  IF id \in IdsOf(tbl)
        THEN Result(tbl, s2, "DatabaseError", Empty, 0, FALSE)
        ELSE Result(tbl \cup {row}, s2, "None", <<row>>, 0, FALSE)

(***************************************************************************)
(* BaseRepository._update: UPDATE ... WHERE key == value ... RETURNING,    *)
(* then scalar_one_or_none.  Moving a row onto a primary key that is taken *)
(* is the store's integrity error (not caught here); several updated rows  *)
(* make scalar_one_or_none raise after the statement has run.              *)
(***************************************************************************)
\* _update without the check of the returned row: no row updated returns nothing
_update_nocheck(tbl, s, key, value, payload) ==
    LET hit    == {r \in tbl : ColEq(r, key, value)}
        moved  == {Assign(r, payload) : r \in hit}
    IN  IF hit = {}
        THEN Result(tbl, s, "None", Empty, 0, FALSE)
        ELSE Result((tbl \ hit) \cup moved, s, "None",
                    <<CHOOSE r \in moved : TRUE>>, 0, FALSE)

_update(tbl, s, key, value, payload) ==
    LET hit    == {r \in tbl : ColEq(r, key, value)}
        kept   == tbl \ hit
        moved  == {Assign(r, payload) : r \in hit}
        clash  == /\ "id" \in DOMAIN payload
                  /\ hit # {}
                  /\ \/ Cardinality(hit) > 1
                     \/ payload["id"] \in IdsOf(kept)
    IN  IF ~HasAttr(key)
        THEN Result(tbl, s, "AttributeError", Empty, 0, FALSE)
        ELSE IF clash
        THEN Result(tbl, s, "IntegrityError", Empty, 0, FALSE)
        ELSE IF hit = {}
        THEN Result(tbl, s, "DatabaseError", Empty, 0, FALSE)
        ELSE IF Cardinality(hit) > 1
        THEN Result(kept \cup moved, s, "MultipleResultsFound", Empty, 0, FALSE)
        ELSE Result(kept \cup moved, s, "None", <<CHOOSE r \in moved : TRUE>>, 0, FALSE)

(***************************************************************************)
(* BaseRepository._delete                                                  *)
(***************************************************************************)
\* _delete that reports a missing row
_delete_strict(tbl, s, id_) ==
    IF \E r \in tbl : ColEq(r, "id", id_)
    THEN Result({r \in tbl : ~ColEq(r, "id", id_)}, s, "None", Empty, 0, FALSE)
    ELSE Result(tbl, s, "NotFound", Empty, 0, FALSE)

_delete(tbl, s, id_) ==
    Result({r \in tbl : ~ColEq(r, "id", id_)}, s, "None", Empty, 0, FALSE)

(***************************************************************************)
(* BaseRepository._exists: OR of the conditions, string values stripped    *)
(* and lower-cased first; or_() of no condition renders no WHERE clause.   *)
(***************************************************************************)
Normal(k, v) == IF IsStr(k) THEN Lower(Strip(v)) ELSE v

\* _exists that compares the values as given and joins the conditions with AND
_exists_and(tbl, s, filters) ==
    LET found == {r \in tbl : \A k \in DOMAIN filters : ColEq(r, k, filters[k])}
    IN  IF \E k \in DOMAIN filters : k \notin Cols
        THEN Result(tbl, s, "Unprocessable", Empty, 0, FALSE)
        ELSE Result(tbl, s, "None", Empty, 0, found # {})

_exists(tbl, s, filters) ==
    LET found == IF DOMAIN filters = {} THEN tbl
                 ELSE {r \in tbl :
                         \E k \in DOMAIN filters : ColEq(r, k, Normal(k, filters[k]))}
    IN  IF \E k \in DOMAIN filters : ~HasAttr(k)
        THEN Result(tbl, s, "Unprocessable", Empty, 0, FALSE)
        ELSE Result(tbl, s, "None", Empty, 0, found # {})

(***************************************************************************)
(* build_filters.  An attribute name is a sequence of tokens, "__" being   *)
(* the separator: <<"b">> is a plain name, <<"rel", "__", "f">> a dotted   *)
(* one.  A query is the joins added and the predicates added, in order.    *)
(***************************************************************************)
HasSep(attr) == \E i \in DOMAIN attr : attr[i] = "__"

\* attr.split('__', 1)
Split1(attr) ==
    LET i == CHOOSE n \in DOMAIN attr :
                 attr[n] = "__" /\ \A m \in 1..(n - 1) : attr[m] # "__"
    IN  <<SubSeq(attr, 1, i - 1), SubSeq(attr, i + 1, Len(attr))>>

Select == [joins |-> <<>>, wheres |-> <<>>]

Pred(cls, field, value) == [cls |-> cls, field |-> field, value |-> value]

\* the loop body without the join of the relationship
AddFilter_nojoin(query, attr, value) ==
    IF HasSep(attr)
    THEN [query EXCEPT !.wheres =
             Append(@, Pred(Split1(attr)[1], Split1(attr)[2], value))]
    ELSE [query EXCEPT !.wheres = Append(@, Pred(<<"root">>, attr, value))]

\* one iteration of the loop over filters.items()
AddFilter(query, attr, value) ==
    IF HasSep(attr)
    THEN LET relationship == Split1(attr)[1]
             field        == Split1(attr)[2]
         IN  [joins  |-> Append(query.joins, relationship),
              wheres |-> Append(query.wheres, Pred(relationship, field, value))]
    ELSE [query EXCEPT !.wheres = Append(@, Pred(<<"root">>, attr, value))]

RECURSIVE BuildOver(_, _, _)
BuildOver(query, filters, todo) ==
    IF todo = {} THEN query
    ELSE LET attr == CHOOSE k \in todo : TRUE
         IN  BuildOver(AddFilter(query, attr, filters[attr]), filters, todo \ {attr})

build_filters(query, filters) == BuildOver(query, filters, DOMAIN filters)

(***************************************************************************)
(* What the store selects for a query: one row per root row when nothing   *)
(* is joined, one row per linked <<root row, related row>> pair when the   *)
(* relationship is joined (a relationship joined twice is rendered as one  *)
(* join), every pair when the related class is only named in a predicate.  *)
(* A selected row is a tuple: <<root>> or <<root, related>>.               *)
(***************************************************************************)
Names(query, cls) ==
    \E i \in DOMAIN query.wheres : query.wheres[i].cls = cls

Holds(t, p) ==
    IF p.cls = <<"root">> THEN ColEq(t[1], p.field[1], p.value)
    ELSE Len(t) = 2 /\ ColEq(t[2], p.field[1], p.value)

Selected(query, tbl, rel, lnk) ==
    LET from ==
            IF \E i \in DOMAIN query.joins : query.joins[i] = <<"rel">>
            THEN {t \in tbl \X rel : <<t[1].id, t[2].id>> \in lnk}
            ELSE IF Names(query, <<"rel">>)
            THEN tbl \X rel
            ELSE {<<r>> : r \in tbl}
    IN  {t \in from : \A i \in DOMAIN query.wheres : Holds(t, query.wheres[i])}

(***************************************************************************)
(* BaseRepository._all_paginated.  order is the order in which the store   *)
(* returns the selected rows for this statement (no ORDER BY is given).    *)
(* The count statement ranges over the same FROM and WHERE.                *)
(***************************************************************************)
Min(x, y) == IF x <= y THEN x ELSE y

Query(filters) ==
    IF DOMAIN filters # {} THEN build_filters(Select, filters) ELSE Select

_all_paginated(tbl, rel, lnk, s, page, page_size, relationships, filters, order) ==
    LET total_count == Cardinality(Selected(Query(filters), tbl, rel, lnk))
        offset      == (page - 1) * page_size
        window      == SubSeq(order, offset + 1, Min(offset + page_size, Len(order)))
        schemas     == [i \in DOMAIN window |-> window[i][1]]
    IN  IF LoadErr(relationships) # "None"
        THEN Result(tbl, s, LoadErr(relationships), Empty, 0, FALSE)
        ELSE Result(tbl, s, "None", schemas, total_count, FALSE)

(***************************************************************************)
(* Arguments the callers pass.                                             *)
(***************************************************************************)
None == <<>>        \* an empty mapping, an empty list

OptId == {None} \cup {[id |-> i] : i \in Ids}
OptA  == {None} \cup {[a |-> v] : v \in RowA}
OptB  == {None} \cup {[b |-> v] : v \in RowB}
FilterB == {1, 2}

Payloads == {Assign(Assign(i, a), b) : i \in OptId, a \in OptA, b \in OptB}
UpdatePayloads == {Assign(i, b) : i \in OptId, b \in OptB} \ {None}

FilterA == {<<"x">>, <<"X", " ">>}
Filters ==
    {Assign(a, b) : a \in {None} \cup {[a |-> v] : v \in FilterA},
                    b \in {None} \cup {[b |-> v] : v \in FilterB}}
        \cup {[zz |-> 1]}

Keys == {"id", "a", "b", "zz"}
ValuesOf(key) ==
    IF key = "a" THEN {<<"x">>} ELSE IF key = "id" THEN Ids
    ELSE IF key = "b" THEN FilterB ELSE {1}

RelArgs == {None, <<"rel">>, <<"zz">>}
FindRelArgs == {None, <<"zz">>}

PageB == {None} \cup {[k \in {<<"b">>} |-> v] : v \in {1}}
PageF == {None} \cup {[k \in {<<"rel", "__", "f">>} |-> v] : v \in {1}}
PageG == {None} \cup {[k \in {<<"rel", "__", "g">>} |-> v] : v \in {2}}
PageFilters == {Assign(Assign(b, f), g) : b \in PageB, f \in PageF, g \in PageG}

RelatedRows == {[id |-> 1, f |-> 1, g |-> 1], [id |-> 2, f |-> 1, g |-> 2]}
PageRows == {Assign([id |-> i], b) : i \in Ids, b \in OptB}
PageTables ==
    {t \in SUBSET PageRows : \A r, q \in t : r.id = q.id => r = q}

NoWalk == [on |-> FALSE, filters |-> None, size |-> 0, next |-> 0,
           acc |-> <<>>, total |-> 0]

(***************************************************************************)
(* The actions: one per handler.                                           *)
(***************************************************************************)
Call(op, args, res, sel) ==
    /\ repo = "ready"
    /\ table' = res.table
    /\ seq' = res.seq
    /\ prev' = table
    /\ last' = [op |-> op, args |-> args, err |-> res.err, rows |-> res.rows,
                num |-> res.num, flag |-> res.flag, sel |-> sel]
    /\ UNCHANGED <<related, links, repo>>

Construct ==
    \E binding \in {"unassigned", "empty", "bound"} :
        /\ repo' = IF __init__(binding) = "None" THEN "ready" ELSE repo
        /\ last' = [op |-> "init", args |-> [binding |-> binding],
                    err |-> __init__(binding), rows |-> Empty, num |-> 0,
                    flag |-> FALSE, sel |-> {}]
        /\ prev' = table
        /\ UNCHANGED <<table, seq, related, links, walk>>

Get ==
    \E id_ \in Ids, relationships \in RelArgs :
        /\ Call("get", [id |-> id_, relationships |-> relationships],
                _get(table, seq, id_, relationships), {})
        /\ UNCHANGED walk

Count ==
    /\ Call("count", None, count(table, seq), {})
    /\ UNCHANGED walk

FindBy ==
    \E filters \in Filters, relationships \in FindRelArgs :
        /\ Call("find_by", [filters |-> filters, relationships |-> relationships],
                find_by(table, seq, filters, relationships), {})
        /\ UNCHANGED walk

First ==
    /\ Call("first", None, _first(table, seq), {})
    /\ UNCHANGED walk

Last ==
    /\ Call("last", None, _last(table, seq), {})
    /\ UNCHANGED walk

Save ==
    \E payload \in Payloads :
        /\ "id" \in DOMAIN payload \/ seq <= MaxId
        /\ Call("save", [payload |-> payload], _save(table, seq, payload), {})
        /\ UNCHANGED walk

All ==
    \E order \in Orders(table) :
        /\ Call("all", None, Result(table, seq, "None", order, 0, FALSE), {})
        /\ UNCHANGED walk

Update ==
    \E key \in Keys :
        \E value \in ValuesOf(key), payload \in UpdatePayloads :
            /\ Call("update", [key |-> key, value |-> value, payload |-> payload],
                    _update(table, seq, key, value, payload), {})
            /\ UNCHANGED walk

Delete ==
    \E id_ \in Ids :
        /\ Call("delete", [id |-> id_], _delete(table, seq, id_), {})
        /\ UNCHANGED walk

Exists ==
    \E filters \in Filters :
        /\ Call("exists", [filters |-> filters], _exists(table, seq, filters), {})
        /\ UNCHANGED walk

\* the caller's walk through the pages: page 1 starts it, the next page of
\* the same request extends it, any other call abandons it
Walked(page, page_size, filters, res) ==
    IF res.err # "None" THEN NoWalk
    ELSE IF page = 1
    THEN [on |-> TRUE, filters |-> filters, size |-> page_size, next |-> 2,
          acc |-> res.rows, total |-> res.num]
    ELSE IF walk.on /\ walk.filters = filters /\ walk.size = page_size
            /\ walk.next = page
    THEN [walk EXCEPT !.next = page + 1, !.acc = @ \o res.rows]
    ELSE NoWalk

Paginate(pages, page_sizes) ==
    \E filters \in PageFilters :
        \E order \in Orders(Selected(Query(filters), table, related, links)),
           page \in pages, page_size \in page_sizes,
           relationships \in {None} :
            LET res == _all_paginated(table, related, links, seq, page, page_size,
                                      relationships, filters, order)
            IN  /\ Call("all_paginated",
                        [page |-> page, page_size |-> page_size,
                         relationships |-> relationships, filters |-> filters],
                        res,
                        IF res.err = "None"
                        THEN {order[i][1] : i \in DOMAIN order} ELSE {})
                /\ walk' = Walked(page, page_size, filters, res)

AllPaginated == Paginate(1..MaxPage, 1..MaxPageSize)

FirstPage == Paginate({1}, {MaxPageSize})

(***************************************************************************)
(* Spec: a repository over an initially empty table, every handler but     *)
(* the paginated listing.  SpecStore: the handlers that write the table,   *)
(* with get and exists to read it back.  SpecPaginated: a repository over  *)
(* any table with its related rows (a related row belongs to at most one   *)
(* row of the mapped class), listed page by page.  SpecFilters: the same   *)
(* tables, the first page of every filtered listing.                       *)
(***************************************************************************)
Init ==
    /\ table = {}
    /\ seq = 1
    /\ related = {}
    /\ links = {}
    /\ repo = "none"
    /\ last = [op |-> "none", args |-> None, err |-> "None", rows |-> Empty,
               num |-> 0, flag |-> FALSE, sel |-> {}]
    /\ prev = {}
    /\ walk = NoWalk

Next ==
    \/ Construct
    \/ Get
    \/ Count
    \/ FindBy
    \/ First
    \/ Last
    \/ Save
    \/ All
    \/ Update
    \/ Delete
    \/ Exists

Spec == Init /\ [][Next]_vars

NextStore ==
    \/ Construct
    \/ Get
    \/ Save
    \/ Update
    \/ Delete
    \/ Exists

SpecStore == Init /\ [][NextStore]_vars

InitPaginated ==
    /\ table \in PageTables
    /\ seq = MaxId + 1
    /\ related = RelatedRows
    /\ links \in {l \in SUBSET (IdsOf(table) \X IdsOf(related)) :
                    \A x, y \in l : x[2] = y[2] => x = y}
    /\ repo = "ready"
    /\ last = [op |-> "none", args |-> None, err |-> "None", rows |-> Empty,
               num |-> 0, flag |-> FALSE, sel |-> {}]
    /\ prev = table
    /\ walk = NoWalk

NextPaginated == AllPaginated

SpecPaginated == InitPaginated /\ [][NextPaginated]_vars

NextFilters == FirstPage

SpecFilters == InitPaginated /\ [][NextFilters]_vars

(***************************************************************************)
(* The claims.                                                             *)
(***************************************************************************)
Kinds == {"None", "Unprocessable", "NotFound", "DatabaseError"}

Plain(filters) == {k \in DOMAIN filters : ~HasSep(k)}
Dotted(filters) == {k \in DOMAIN filters : HasSep(k)}

\* the root rows that match filters: every plain entry holds of the row and,
\* when there are dotted entries, some related row joined to it satisfies
\* them all
Matching(filters) ==
    {r \in table :
        /\ \A k \in Plain(filters) : ColEq(r, k[1], filters[k])
        /\ \/ Dotted(filters) = {}
           \/ \E c \in related :
                 /\ <<r.id, c.id>> \in links
                 /\ \A k \in Dotted(filters) : ColEq(c, k[3], filters[k])}

Times(x, sq) == Cardinality({i \in DOMAIN sq : sq[i] = x})

WalkDone == walk.on /\ (walk.next - 1) * walk.size >= walk.total

(* C1: a page of all_paginated holds at most page_size rows, and the pages
   1..ceil(total_count/page_size) of one request, concatenated, hold every
   matching row exactly once and nothing else.  (The code keeps the first
   half only: a root row joined to two related rows that satisfy a dotted
   filter is listed twice, and without ORDER BY two pages may overlap.) *)
C1_PagesPartition ==
    last.op = "all_paginated" /\ last.err = "None" =>
        /\ Len(last.rows) <= last.args.page_size
        /\ WalkDone =>
              /\ \A r \in Matching(walk.filters) : Times(r, walk.acc) = 1
              /\ \A i \in DOMAIN walk.acc : walk.acc[i] \in Matching(walk.filters)

(* C2: total_count of all_paginated is the number of rows of the mapped
   class that match the filters.  (The code counts the joined rows.) *)
C2_TotalCount ==
    last.op = "all_paginated" /\ last.err = "None" =>
        last.num = Cardinality(Matching(last.args.filters))

(* C3: after a successful save(payload), get on the returned primary key
   succeeds and yields the saved row, which is the payload plus the
   generated id; a save that violates the primary key fails with
   DatabaseError and leaves the table alone. *)
C3_SaveThenGet ==
    last.op = "save" =>
        LET payload == last.args.payload
            id == IF "id" \in DOMAIN payload THEN payload["id"] ELSE seq - 1
        IN  /\ id \in IdsOf(prev) => last.err = "DatabaseError" /\ table = prev
            /\ id \notin IdsOf(prev) => last.err = "None"
            /\ last.err = "None" =>
                  LET got == _get(table, seq, last.rows[1].id, None)
                  IN  /\ got.err = "None"
                      /\ got.rows = last.rows
                      /\ DOMAIN got.rows[1] = DOMAIN payload \cup {"id"}
                      /\ got.rows[1].id = id
                      /\ \A k \in DOMAIN payload : got.rows[1][k] = payload[k]

C3_Witness ==
    /\ last.op = "save" /\ last.err = "None"
    /\ "id" \notin DOMAIN last.args.payload
    /\ DOMAIN last.args.payload # {}
    /\ prev # {}

(* C4: delete(id) raises nothing whether or not the row exists, removes
   that row only, deleting again changes nothing, and a get(id) right
   after it fails with NotFound. *)
C4_DeleteIdempotent ==
    last.op = "delete" =>
        /\ last.err = "None"
        /\ table = {r \in prev : r.id # last.args.id}
        /\ _delete(table, seq, last.args.id).err = "None"
        /\ _delete(table, seq, last.args.id).table = table
        /\ _get(table, seq, last.args.id, None).err = "NotFound"

C4_Witness ==
    /\ last.op = "delete"
    /\ last.args.id \notin IdsOf(prev)
    /\ prev # {}

Hit == {r \in prev : ColEq(r, last.args.key, last.args.value)}

Clash ==
    /\ "id" \in DOMAIN last.args.payload
    /\ last.args.payload["id"] \in IdsOf(prev \ Hit)

(* C5, as stated: update fails with DatabaseError and changes nothing when
   no row has key == value; when exactly one row has, it sets that row's
   columns from the payload and returns the row's new state. *)
C5_Original ==
    last.op = "update" /\ last.args.key \in Cols =>
        /\ Hit = {} => last.err = "DatabaseError" /\ table = prev
        /\ Cardinality(Hit) = 1 =>
              /\ last.err = "None"
              /\ last.rows = <<Assign(CHOOSE r \in Hit : TRUE, last.args.payload)>>
              /\ table = (prev \ Hit) \cup {last.rows[1]}

(* C5, amended: as stated, provided the payload does not move the one
   matching row onto the primary key of another row; when it does, the
   update fails and no row is changed. *)
C5_Update ==
    last.op = "update" /\ last.args.key \in Cols =>
        /\ Hit = {} => last.err = "DatabaseError" /\ table = prev
        /\ Cardinality(Hit) = 1 /\ ~Clash =>
              /\ last.err = "None"
              /\ last.rows = <<Assign(CHOOSE r \in Hit : TRUE, last.args.payload)>>
              /\ table = (prev \ Hit) \cup {last.rows[1]}
        /\ Cardinality(Hit) = 1 /\ Clash => last.err # "None" /\ table = prev

C5_Witness ==
    /\ last.op = "update" /\ last.err = "None"
    /\ Cardinality(Hit) = 1
    /\ Cardinality(prev) = 2
    /\ table # prev

(* C6: with plain, known keys find_by returns a row iff some row matches
   every entry, the row returned being such a match, and raises nothing.
   (The code raises when several rows match.) *)
C6_FindBy ==
    /\ last.op = "find_by"
    /\ DOMAIN last.args.filters \subseteq Cols
    /\ last.args.relationships = None
    =>  LET m == {r \in table : \A k \in DOMAIN last.args.filters :
                                    ColEq(r, k, last.args.filters[k])}
        IN  /\ last.err = "None"
            /\ last.rows # <<>> <=> m # {}
            /\ last.rows # <<>> => last.rows[1] \in m

\* some row matches some entry, the string values stripped and lower-cased
AnyMatch(filters) ==
    \E r \in table : \E k \in DOMAIN filters :
        ColEq(r, k, IF k = "a" THEN Lower(Strip(filters[k])) ELSE filters[k])

(* C7, as stated: exists returns true iff some row matches some entry of
   filters, string values stripped and lower-cased first; an unknown field
   name makes it fail with Unprocessable. *)
C7_Original ==
    last.op = "exists" =>
        IF DOMAIN last.args.filters \subseteq Cols
        THEN last.err = "None" /\ last.flag = AnyMatch(last.args.filters)
        ELSE last.err = "Unprocessable"

(* C7, amended: as stated for a mapping with at least one entry; with an
   empty mapping exists returns true iff the table holds any row. *)
C7_Exists ==
    last.op = "exists" =>
        IF DOMAIN last.args.filters = {}
        THEN last.err = "None" /\ last.flag = (table # {})
        ELSE IF DOMAIN last.args.filters \subseteq Cols
        THEN last.err = "None" /\ last.flag = AnyMatch(last.args.filters)
        ELSE last.err = "Unprocessable"

C7_Witness ==
    /\ last.op = "exists" /\ last.flag
    /\ last.args.filters = [a |-> <<"X", " ">>, b |-> 2]
    /\ \A r \in table : ~ColEq(r, "b", 2)
    /\ \E r \in table : ColEq(r, "a", <<"X">>)
    /\ \E r \in table : ColEq(r, "a", <<"x">>)

(* C8: a repository operation that fails, fails with Unprocessable,
   NotFound or DatabaseError.  (The code lets the ORM's own exceptions
   through.) *)
C8_ThreeKinds == last.op \notin {"none", "init"} => last.err \in Kinds

(* C9: the root rows a statement built by build_filters selects are the
   rows that match: every plain entry holds of the row and, with dotted
   entries, some related row joined to it satisfies them all, also when
   two dotted entries name the same relationship. *)
C9_JoinThenFilter ==
    last.op = "all_paginated" /\ last.err = "None" =>
        last.sel = Matching(last.args.filters)

C9_Witness ==
    /\ last.op = "all_paginated" /\ last.err = "None"
    /\ Cardinality(Dotted(last.args.filters)) = 2
    /\ last.sel # {}
    /\ last.sel # table
    /\ \E r \in last.sel : \A c \in related : <<r.id, c.id>> \in links

(* C10: constructing a repository with no mapped class bound fails with
   Unprocessable and nothing else; with one bound it succeeds.  (With
   schema_class never assigned the code raises AttributeError.) *)
C10_Construct ==
    last.op = "init" =>
        IF last.args.binding = "bound"
        THEN last.err = "None" /\ repo = "ready"
        ELSE last.err = "Unprocessable"
====
